---- MODULE Spec2Model ----
(***************************************************************************)
(* Model of trace-creator.py: the per-task lifecycle                        *)
(*   host_configure* -> start_tshark -> run_command -> sleep -> terminate   *)
(*   -> move_files                                                          *)
(* iterated over the task list, with the two directories the script writes *)
(* to (the temporary capture directory and the output directory), the SSH  *)
(* clients it opens and the tshark processes it spawns.                    *)
(***************************************************************************)
EXTENDS Integers, Sequences, FiniteSets, TLC

\* ------------------------------------------------------------------ bounds
MaxTasks == 2          \* tasks in the configuration file
MaxHosts == 2          \* host entries in one task's "configuration" list
MaxFilterLen == 3      \* symbols in a task's "filter"

\* ------------------------------------------------------- program constants
NameLimit == 50        \* task["name"][:50]

\* The characters shlex.split treats specially.
Space == " "
DQuote == "\""
SQuote == "'"
Backslash == "\\"
Quotes == {DQuote, SQuote}

\* -------------------------------------------------------------- input sets
Hosts == {"h1", "h2"}
\* Task names, as sequences of characters.
Names == { <<"A", " ">>, <<"b">> }
\* What a command can print on one stream: nothing (b'') or something.
Streams == {"", "a"}
ExitCodes == {0, 1}
\* The symbols a capture filter is made of.
FilterChars == {"a", Space, DQuote, SQuote, Backslash}

\* The characters of the class in re.sub(r'[ @#$%^&*<>{}:|;\'\\\"/]', ...).
UnsafeChars == {" ", "@", "#", "$", "%", "^", "&", "*", "<", ">", "{", "}",
                ":", "|", ";", "'", "\\", "\"", "/"}

\* ---------------------------------------------------------------- get_task_id
\* str.lower() on one character of those the model's names use.  The
\* lowercase form of U+0130 ("I-dot", capital I with dot above) is two
\* characters: i followed by U+0307 ("dot-above").
Lower(c) ==
    IF c = "A" THEN <<"a">>
    ELSE IF c = "B" THEN <<"b">>
    ELSE IF c = "I-dot" THEN <<"i", "dot-above">>
    ELSE <<c>>

\* str.lower() on a string.
RECURSIVE str_lower(_)
str_lower(s) == IF s = <<>> THEN <<>> ELSE Lower(Head(s)) \o str_lower(Tail(s))

Truncate(name) ==
    IF Len(name) > NameLimit THEN SubSeq(name, 1, NameLimit) ELSE name

Sanitize(s) == [i \in 1..Len(s) |-> IF s[i] \in UnsafeChars THEN "_" ELSE s[i]]

\* "{timestamp}-{name}" with name = task["name"][:50].lower(), then re.sub over
\* the whole string.  The strftime("%Y-%m-%d_%H-%M-%S") prefix and the hyphen
\* hold no character of the class, so the substitution changes the name part
\* only; the identifier is kept as the pair (timestamp, name part).
get_task_id(task, timestamp) ==
    <<timestamp, Sanitize(str_lower(Truncate(task.name)))>>

\* A path directly inside a directory: the task id followed by an extension
\* ("" for the per-task directory of host outputs).
PathOf(id, ext) == <<id[1], id[2], ext>>

CaptureExt == ".pcang"

\* ---------------------------------------------------------------- start_tshark
\* Command lines are sequences of symbols: the four characters shlex treats
\* specially, and symbols that stand for runs of ordinary characters.

\* "tshark -i {interface} -q -w {output_file} -F pcapng", lines 114-115.  The
\* interface and the capture file path are single words ("IFACE", "FILE").
BaseCommand ==
    <<"tshark", Space, "-i", Space, "IFACE", Space, "-q", Space, "-w", Space,
      "FILE", Space, "-F", Space, "pcapng">>

\* tshark_command += " -f \"{filter}\"", lines 116-117.
TsharkCommand(has_filter, filter) ==
    IF has_filter
    THEN BaseCommand \o <<Space, "-f", Space, DQuote>> \o filter \o <<DQuote>>
    ELSE BaseCommand

\* shlex.split(s) (POSIX mode, whitespace_split): the tokens of s from
\* position i on, the scanner being in state st ("ws" between tokens, "word"
\* inside one, a quote character inside quotes, the backslash after an
\* escape), esc the state an escape returns to, tok the token read so far,
\* quoted whether it had a quoted part, out the tokens already complete.
\* The result is the token list, or <<"ValueError">> in place of a list for
\* "No closing quotation" / "No escaped character".
RECURSIVE ShlexScan(_, _, _, _, _, _, _)
ShlexScan(s, i, st, esc, tok, quoted, out) ==
    IF i > Len(s)
    THEN IF st \in Quotes \/ st = Backslash
         THEN <<"ValueError">>
         ELSE IF tok # <<>> \/ quoted THEN Append(out, tok) ELSE out
    ELSE LET c == s[i]
         IN  IF st = "ws"
             THEN IF c = Space
                  THEN ShlexScan(s, i + 1, "ws", esc, tok, quoted, out)
                  ELSE IF c = Backslash
                  THEN ShlexScan(s, i + 1, Backslash, "word", tok, quoted, out)
                  ELSE IF c \in Quotes
                  THEN ShlexScan(s, i + 1, c, esc, tok, quoted, out)
                  ELSE ShlexScan(s, i + 1, "word", esc, <<c>>, quoted, out)
             ELSE IF st \in Quotes
             THEN IF c = st
                  THEN ShlexScan(s, i + 1, "word", esc, tok, TRUE, out)
                  ELSE IF c = Backslash /\ st = DQuote
                  THEN ShlexScan(s, i + 1, Backslash, st, tok, TRUE, out)
                  ELSE ShlexScan(s, i + 1, st, esc, Append(tok, c), TRUE, out)
             ELSE IF st = Backslash
             THEN IF esc \in Quotes /\ c # Backslash /\ c # esc
                  THEN ShlexScan(s, i + 1, esc, esc, tok \o <<Backslash, c>>,
                                 quoted, out)
                  ELSE ShlexScan(s, i + 1, esc, esc, Append(tok, c), quoted, out)
             ELSE \* st = "word"
                  IF c = Space
                  THEN IF tok # <<>> \/ quoted
                       THEN ShlexScan(s, i + 1, "ws", esc, <<>>, FALSE,
                                      Append(out, tok))
                       ELSE ShlexScan(s, i + 1, "ws", esc, tok, quoted, out)
                  ELSE IF c \in Quotes
                  THEN ShlexScan(s, i + 1, c, esc, tok, quoted, out)
                  ELSE IF c = Backslash
                  THEN ShlexScan(s, i + 1, Backslash, "word", tok, quoted, out)
                  ELSE ShlexScan(s, i + 1, "word", esc, Append(tok, c), quoted, out)

shlex_split(s) == ShlexScan(s, 1, "ws", "word", <<>>, FALSE, <<>>)

\* start_tshark up to the Popen call of line 120: the argument list handed to
\* Popen, or the exception shlex.split raised.
start_tshark_argv(has_filter, filter) ==
    LET argv == shlex_split(TsharkCommand(has_filter, filter))
    IN  IF argv = <<"ValueError">>
        THEN [fn |-> "start_tshark", raised |-> "ValueError", argv |-> <<>>]
        ELSE [fn |-> "start_tshark", raised |-> "none", argv |-> argv]

\* ------------------------------------------------------------- file system
File(data) == [kind |-> "file", data |-> data, entries |-> <<>>]
Dir(entries) == [kind |-> "dir", data |-> "", entries |-> entries]
EmptyDir == <<>>

\* d with name bound to entry (created or replaced).
Put(d, name, entry) ==
    [n \in DOMAIN d \cup {name} |-> IF n = name THEN entry ELSE d[n]]

Remove(d, names) == [n \in DOMAIN d \ names |-> d[n]]

\* Popen(...).communicate() without text mode and paramiko's read() both
\* return bytes.
StreamType == "bytes"

\* path.open('w') is a text-mode file: write() takes str and raises TypeError
\* for bytes (also for b'').
WriteAccepts(type) == type = "str"


\* A file-system operation carries the directory it works on and the exception
\* raised so far ("none" when there is none); once an exception is raised the
\* rest of the function body is skipped.
FsState(out) == [out |-> out, raised |-> "none"]

\* directory_name.mkdir() guarded by "if not directory_name.exists()".
MkdirIfMissing(s, dname, fail) ==
    IF s.raised # "none" \/ dname \in DOMAIN s.out THEN s
    ELSE IF fail THEN [s EXCEPT !.raised = "OSError"]
    ELSE [s EXCEPT !.out = Put(s.out, dname, Dir(EmptyDir))]

\* with path.open('w') as f: f.write(data)  -- open() creates or truncates the
\* file, write() then raises TypeError unless the stream type is str.
WriteText(entries, fname, data) ==
    IF WriteAccepts(StreamType)
    THEN [entries |-> Put(entries, fname, File(data)), raised |-> "none"]
    ELSE [entries |-> Put(entries, fname, File("")), raised |-> "TypeError"]

\* open-and-write of a file directly inside the directory.
WriteTop(s, fname, data, fail) ==
    IF s.raised # "none" THEN s
    ELSE IF fail THEN [s EXCEPT !.raised = "OSError"]
    ELSE LET w == WriteText(s.out, fname, data)
         IN  [out |-> w.entries, raised |-> w.raised]

\* open-and-write of a file inside the sub-directory dname.
WriteNested(s, dname, fname, data, fail) ==
    IF s.raised # "none" THEN s
    ELSE IF fail THEN [s EXCEPT !.raised = "OSError"]
    ELSE LET w == WriteText(s.out[dname].entries, fname, data)
         IN  [out |-> Put(s.out, dname, Dir(w.entries)), raised |-> w.raised]

\* Which file-system call of a step the environment makes fail.
FsFaults == {"none", "mkdir", "log", "err"}

\* host_configure, lines 83-96: the per-task directory and the two files.
\* The .err file is written from stdout (line 95).
host_configure_write(out, id, host, stdout, stderr, fault) ==
    IF stdout = "" /\ stderr = "" THEN FsState(out)
    ELSE LET dname == PathOf(id, "")
             s1 == MkdirIfMissing(FsState(out), dname, fault = "mkdir")
             s2 == IF stdout # ""
                   THEN WriteNested(s1, dname, <<host, ".log">>, stdout, fault = "log")
                   ELSE s1
             s3 == IF stderr # ""
                   THEN WriteNested(s2, dname, <<host, ".err">>, stdout, fault = "err")
                   ELSE s2
         IN  s3

\* run_command, lines 137-147: the .log and .err files of the local command.
run_command_write(out, id, stdout, stderr, fault) ==
    LET s1 == IF stdout # ""
              THEN WriteTop(FsState(out), PathOf(id, ".log"), stdout, fault = "log")
              ELSE FsState(out)
        s2 == IF stderr # ""
              THEN WriteTop(s1, PathOf(id, ".err"), stderr, fault = "err")
              ELSE s1
    IN  s2

\* A move that leaves an entry already present at the destination as it is.
shutil_move_keep(out, name, entry) ==
    IF name \in DOMAIN out THEN out ELSE Put(out, name, entry)

\* shutil.move(source, destination) of one file: an existing directory at the
\* destination receives the file inside it, anything else is replaced.
shutil_move(out, name, entry) ==
    IF name \in DOMAIN out /\ out[name].kind = "dir"
    THEN Put(out, name, Dir(Put(out[name].entries, name, entry)))
    ELSE Put(out, name, entry)

\* move_files over the entries `names` of the source directory.
RECURSIVE MoveAll(_, _, _)
MoveAll(names, src, out) ==
    IF names = {} THEN out
    ELSE LET n == CHOOSE x \in names : TRUE
         IN  MoveAll(names \ {n}, src, shutil_move(out, n, src[n]))

\* ------------------------------------------------------------------- state
VARIABLES
    numTasks,          \* len(configuration), the parsed task list (yaml.load)
    taskIdx,           \* position of "for task in configuration"
    task,              \* the loop variable of line 223 (a module-level name)
    pc,                \* the statement the script is at
    hostIdx,           \* position of "for host_configuration in ..."
    clock,             \* wall clock: the number of seconds begun since the run started
    task_timestamp,    \* time.strftime(...) taken at the task's start
    ssh_client,        \* the SSHClient of the current host_configure call
    sessions,          \* number of SSH sessions that are open
    stdout, stderr,    \* what the last command printed
    returncode,        \* exit code of the last command
    capture_directory, \* /tmp/capture: name -> entry
    output_directory,  \* args.output_directory: name -> entry
    tshark,            \* per task, the capture process spawned for it
    lifecycle,         \* per task: "pending", "running", "collected"
    now,               \* statements executed in the current task (orders ev)
    ev,                \* when each step of task ev.k, the last one begun, happened
    fatal,             \* the uncaught exception that ended the run, or "none"
    configured,        \* hosts of the current task a connection was opened to, in order
    fn_args,           \* arguments of a function called on its own
    fn_result          \* what that call returned

vars == <<numTasks, taskIdx, task, pc, hostIdx, clock, task_timestamp,
          ssh_client, sessions, stdout, stderr, returncode, capture_directory,
          output_directory, tshark, lifecycle, now, ev, fatal, configured,
          fn_args, fn_result>>

SeqsUpTo(S, n) == UNION {[1..m -> S] : m \in 0..n}

HostConfigEntry == [ip : Hosts]
\* A task without the "configuration" key is one with no host entry.
Task == [name : Names, configuration : SeqsUpTo(HostConfigEntry, MaxHosts)]
NoTask == [name |-> <<>>, configuration |-> <<>>]

TaskIds == 1..MaxTasks

\* state: "none" (not spawned), "running", "terminating" (signalled, not yet
\* gone), "exited".  file: "none" (not created yet), "written" (at path in
\* dir), "moved" (collected by move_files).
NoProcess == [state |-> "none", spawned |-> 0, terminate |-> 0, kill |-> 0,
              file |-> "none", dir |-> "", path |-> <<>>]

NoEvents == [k |-> 0, begin |-> 0, start |-> 0, cmdBegin |-> 0, cmdEnd |-> 0,
             delayEnd |-> 0, stop |-> 0, collect |-> 0]

\* What the capture of task k holds (the packets differ from run to run).
Packets(k) == "pcap" \o ToString(k)

\* A capture file left in /tmp/capture by an earlier run that was aborted.
Leftover == <<0, <<"o">>, CaptureExt>>

\* No function is being called on its own.
NoCall == [fn |-> "none"]

\* The task list is read by the loop of line 223 one task at a time: the model
\* fixes its length at the start and draws each task when the loop reaches it.
Init ==
    /\ numTasks \in 1..MaxTasks
    /\ taskIdx = 1
    /\ task = NoTask
    /\ pc = "task"
    /\ hostIdx = 1
    /\ clock = 0
    /\ task_timestamp = 0
    /\ ssh_client = "none"
    /\ sessions = 0
    /\ stdout = ""
    /\ stderr = ""
    /\ returncode = 0
    /\ capture_directory \in {EmptyDir, Put(EmptyDir, Leftover, File(Packets(0)))}
    /\ output_directory = EmptyDir
    /\ tshark = [k \in TaskIds |-> NoProcess]
    /\ lifecycle = [k \in TaskIds |-> "pending"]
    /\ now = 0
    /\ ev = NoEvents
    /\ fatal = "none"
    /\ configured = <<>>
    /\ fn_args = NoCall
    /\ fn_result = NoCall

\* The capture process writing straight into the output directory.
StartTsharkInOutput == "output"

\* ------------------------------------------------------------------ helpers
\* The directory each step is handed by process_creator_task.
HostConfigureDir == "output"     \* args.output_directory, line 180
StartTsharkDir == "capture"      \* capture_directory, line 182
RunCommandDir == "output"        \* args.output_directory, line 183

DirOf(which) == IF which = "capture" THEN capture_directory ELSE output_directory

SetDir(which, d) ==
    IF which = "capture"
    THEN capture_directory' = d /\ UNCHANGED output_directory
    ELSE output_directory' = d /\ UNCHANGED capture_directory

\* An exception that is caught by the task loop, which then goes on.
RaiseAndContinue(kind) == pc' = "task" /\ fatal' = kind

\* An uncaught exception: the interpreter exits, nothing else of the script runs.
Raise(kind) == pc' = "aborted" /\ fatal' = kind

\* The statement executed now happens at time now + 1.
Mark(field) ==
    /\ now' = now + 1
    /\ ev' = [ev EXCEPT ![field] = now + 1]

NoMark == now' = now + 1 /\ UNCHANGED ev

\* The function returns or is left by an exception: its local stdout, stderr
\* and process are gone.
ForgetLocals == stdout' = "" /\ stderr' = "" /\ returncode' = 0

KeepLocals == UNCHANGED <<stdout, stderr, returncode>>

\* ------------------------------------------------------------------ actions
\* The clock is read at line 175 only and time stamps are only compared for
\* equality (they are parts of file names), so what matters is whether a new
\* second has begun since the previous task read the clock.
Tick ==
    /\ pc = "task"
    /\ taskIdx <= numTasks
    /\ clock < taskIdx - 1
    /\ clock' = clock + 1
    /\ UNCHANGED <<fn_args, fn_result>>
    /\ UNCHANGED configured
    /\ UNCHANGED <<numTasks, taskIdx, task, pc, hostIdx, task_timestamp,
                   ssh_client, sessions, stdout, stderr, returncode,
                   capture_directory, output_directory, tshark, lifecycle,
                   now, ev, fatal>>

\* Line 223 binds the next task; process_creator_task, lines 174-175.
ProcessTask ==
    /\ pc = "task"
    /\ taskIdx <= numTasks
    /\ task' \in Task
    /\ task_timestamp' = clock
    /\ hostIdx' = 1
    /\ pc' = "configure"
    /\ lifecycle' = [lifecycle EXCEPT ![taskIdx] = "running"]
    /\ now' = 1
    /\ ev' = [NoEvents EXCEPT !.k = taskIdx, !.begin = 1]
    /\ configured' = <<>>
    /\ UNCHANGED <<fn_args, fn_result>>
    /\ UNCHANGED <<numTasks, taskIdx, clock, ssh_client, sessions, stdout,
                   stderr, returncode, capture_directory, output_directory,
                   tshark, fatal>>

\* The loop of line 223 is exhausted: lines 226-227.
Finish ==
    /\ pc = "task"
    /\ taskIdx > numTasks
    /\ pc' = "done"
    /\ UNCHANGED <<fn_args, fn_result>>
    /\ UNCHANGED configured
    /\ UNCHANGED <<numTasks, taskIdx, task, hostIdx, clock, task_timestamp,
                   ssh_client, sessions, stdout, stderr, returncode,
                   capture_directory, output_directory, tshark, lifecycle,
                   now, ev, fatal>>

\* host_configure, lines 75-77: a new client, connected or an exception.
HostConnect ==
    /\ pc = "configure"
    /\ hostIdx <= Len(task.configuration)
    /\ \E ok \in BOOLEAN :
         IF ok
         THEN /\ ssh_client' = "open"
              /\ sessions' = sessions + 1
              /\ configured' = Append(configured, task.configuration[hostIdx].ip)
              /\ pc' = "exec"
              /\ UNCHANGED fatal
         ELSE /\ ssh_client' = "none"
              /\ UNCHANGED <<sessions, configured>>
              /\ Raise("SSHException")
    /\ NoMark
    /\ UNCHANGED <<fn_args, fn_result>>
    /\ UNCHANGED <<numTasks, taskIdx, task, hostIdx, clock, task_timestamp,
                   stdout, stderr, returncode, capture_directory,
                   output_directory, tshark, lifecycle>>

\* host_configure, lines 79-81: run the command, read both streams.  The exit
\* status of the remote command is never asked for.
HostExec ==
    /\ pc = "exec"
    /\ \E ok \in BOOLEAN, so \in Streams, se \in Streams, rc \in ExitCodes :
         IF ok
         THEN /\ stdout' = so /\ stderr' = se /\ returncode' = rc
              /\ pc' = "write" /\ UNCHANGED fatal
         ELSE /\ KeepLocals
              /\ Raise("SSHException")
    /\ NoMark
    /\ UNCHANGED <<fn_args, fn_result>>
    /\ UNCHANGED configured
    /\ UNCHANGED <<numTasks, taskIdx, task, hostIdx, clock, task_timestamp,
                   ssh_client, sessions, capture_directory, output_directory,
                   tshark, lifecycle>>

\* A task other than the one being run.
HostConfigureOtherTask == [name |-> <<"z">>, configuration |-> <<>>]

\* host_configure has no task parameter: `task` at line 84 is the module-level
\* name, which the loop of line 223 has bound to the task being run.
HostConfigureTask == task

\* host_configure, lines 83-96.
HostWrite ==
    /\ pc = "write"
    /\ \E fault \in FsFaults :
         LET r == host_configure_write(DirOf(HostConfigureDir),
                      get_task_id(HostConfigureTask, task_timestamp),
                      task.configuration[hostIdx].ip, stdout, stderr, fault)
         IN  /\ SetDir(HostConfigureDir, r.out)
             /\ IF r.raised = "none"
                THEN pc' = "close" /\ UNCHANGED fatal /\ KeepLocals
                ELSE Raise(r.raised) /\ ForgetLocals
    /\ NoMark
    /\ UNCHANGED <<fn_args, fn_result>>
    /\ UNCHANGED configured
    /\ UNCHANGED <<numTasks, taskIdx, task, hostIdx, clock, task_timestamp,
                   ssh_client, sessions, tshark, lifecycle>>

\* The session is closed and the loop passes over the entry that follows.
HostCloseSkipping ==
    /\ pc = "close"
    /\ ssh_client' = "closed"
    /\ sessions' = sessions - 1
    /\ hostIdx' = hostIdx + 2
    /\ pc' = "configure"
    /\ stdout' = "" /\ stderr' = "" /\ returncode' = 0
    /\ now' = now + 1
    /\ UNCHANGED <<fn_args, fn_result, configured, numTasks, taskIdx, task,
                   clock, task_timestamp, capture_directory, output_directory,
                   tshark, lifecycle, ev, fatal>>

\* host_configure, line 98, and the return to the loop of line 178.
HostClose ==
    /\ pc = "close"
    /\ ssh_client' = "closed"
    /\ sessions' = sessions - 1
    /\ hostIdx' = hostIdx + 1
    /\ pc' = "configure"
    /\ ForgetLocals
    /\ NoMark
    /\ UNCHANGED <<fn_args, fn_result>>
    /\ UNCHANGED configured
    /\ UNCHANGED <<numTasks, taskIdx, task, clock, task_timestamp,
                   capture_directory, output_directory, tshark, lifecycle,
                   fatal>>

\* start_tshark, lines 111-121, called at line 182 once the configuration
\* loop is over (or the task has no "configuration").
StartTshark ==
    /\ pc = "configure"
    /\ hostIdx > Len(task.configuration)
    /\ \E ok \in BOOLEAN :
         IF ok
         THEN /\ tshark' = [tshark EXCEPT ![taskIdx] =
                    [state |-> "running", spawned |-> @.spawned + 1,
                     terminate |-> @.terminate, kill |-> @.kill,
                     file |-> "none", dir |-> StartTsharkDir,
                     path |-> PathOf(get_task_id(task, task_timestamp), CaptureExt)]]
              /\ pc' = "run" /\ UNCHANGED fatal /\ Mark("start")
         ELSE UNCHANGED tshark /\ Raise("OSError") /\ NoMark
    /\ UNCHANGED <<fn_args, fn_result>>
    /\ UNCHANGED configured
    /\ UNCHANGED <<numTasks, taskIdx, task, hostIdx, clock, task_timestamp,
                   ssh_client, sessions, stdout, stderr, returncode,
                   capture_directory, output_directory, lifecycle>>

\* run_command, line 134: the command is launched, or Popen raises.
RunPopen ==
    /\ pc = "run"
    /\ \E ok \in BOOLEAN :
         IF ok
         THEN pc' = "communicate" /\ UNCHANGED fatal /\ Mark("cmdBegin")
         ELSE Raise("OSError") /\ NoMark
    /\ UNCHANGED <<fn_args, fn_result>>
    /\ UNCHANGED configured
    /\ UNCHANGED <<numTasks, taskIdx, task, hostIdx, clock, task_timestamp,
                   ssh_client, sessions, stdout, stderr, returncode,
                   capture_directory, output_directory, tshark, lifecycle>>

\* run_command, line 135: blocks until the command has exited; the exit code
\* is left in process.returncode and never read.
RunCommunicate ==
    /\ pc = "communicate"
    /\ \E so \in Streams, se \in Streams, rc \in ExitCodes :
         stdout' = so /\ stderr' = se /\ returncode' = rc
    /\ pc' = "cmdwrite"
    /\ Mark("cmdEnd")
    /\ UNCHANGED <<fn_args, fn_result>>
    /\ UNCHANGED configured
    /\ UNCHANGED <<numTasks, taskIdx, task, hostIdx, clock, task_timestamp,
                   ssh_client, sessions, capture_directory, output_directory,
                   tshark, lifecycle, fatal>>

\* run_command, lines 137-147.
RunWrite ==
    /\ pc = "cmdwrite"
    /\ \E fault \in FsFaults \ {"mkdir"} :
         LET r == run_command_write(DirOf(RunCommandDir),
                      get_task_id(task, task_timestamp), stdout, stderr, fault)
         IN  /\ SetDir(RunCommandDir, r.out)
             /\ IF r.raised = "none"
                THEN pc' = "sleep" /\ UNCHANGED fatal /\ KeepLocals
                ELSE Raise(r.raised) /\ ForgetLocals
    /\ NoMark
    /\ UNCHANGED <<fn_args, fn_result>>
    /\ UNCHANGED configured
    /\ UNCHANGED <<numTasks, taskIdx, task, hostIdx, clock, task_timestamp,
                   ssh_client, sessions, tshark, lifecycle>>

\* run_command has returned; time.sleep(args.delay), line 184.
Sleep ==
    /\ pc = "sleep"
    /\ pc' = "terminate"
    /\ ForgetLocals
    /\ Mark("delayEnd")
    /\ UNCHANGED <<fn_args, fn_result>>
    /\ UNCHANGED configured
    /\ UNCHANGED <<numTasks, taskIdx, task, hostIdx, clock, task_timestamp,
                   ssh_client, sessions, capture_directory, output_directory,
                   tshark, lifecycle, fatal>>

\* The stop request sent as soon as run_command has returned, without the
\* settle delay.
TerminateEarly ==
    /\ pc = "sleep"
    /\ tshark' = [tshark EXCEPT ![taskIdx] =
          [@ EXCEPT !.terminate = @ + 1,
                    !.state = IF @ = "running" THEN "terminating" ELSE @]]
    /\ pc' = "collect"
    /\ stdout' = "" /\ stderr' = "" /\ returncode' = 0
    /\ now' = now + 1
    /\ ev' = [ev EXCEPT !.stop = now + 1]
    /\ UNCHANGED <<fn_args, fn_result>>
    /\ UNCHANGED configured
    /\ UNCHANGED <<numTasks, taskIdx, task, hostIdx, clock, task_timestamp,
                   ssh_client, sessions, capture_directory, output_directory,
                   lifecycle, fatal>>

\* tshark_process.terminate(), line 186: SIGTERM is sent, nothing is waited for.
Terminate ==
    /\ pc = "terminate"
    /\ tshark' = [tshark EXCEPT ![taskIdx] =
          [@ EXCEPT !.terminate = @ + 1,
                    !.state = IF @ = "running" THEN "terminating" ELSE @]]
    /\ pc' = "collect"
    /\ Mark("stop")
    /\ UNCHANGED <<fn_args, fn_result>>
    /\ UNCHANGED configured
    /\ UNCHANGED <<numTasks, taskIdx, task, hostIdx, clock, task_timestamp,
                   ssh_client, sessions, stdout, stderr, returncode,
                   capture_directory, output_directory, lifecycle, fatal>>

\* The capture files of the processes, once `names` have left the capture
\* directory.
Collected(names) ==
    [k \in TaskIds |->
        IF tshark[k].file = "written" /\ tshark[k].dir = "capture"
           /\ tshark[k].path \in names
        THEN [tshark[k] EXCEPT !.file = "moved"]
        ELSE tshark[k]]

\* The loop going on to the next task with the collect step of this one still
\* to be done.
MoveFilesDeferred ==
    /\ pc = "collect"
    /\ taskIdx' = taskIdx + 1
    /\ pc' = "task"
    /\ now' = now + 1
    /\ UNCHANGED <<fn_args, fn_result>>
    /\ UNCHANGED configured
    /\ UNCHANGED <<numTasks, task, hostIdx, clock, task_timestamp, ssh_client,
                   sessions, stdout, stderr, returncode, capture_directory,
                   output_directory, tshark, lifecycle, ev, fatal>>

\* move_files, lines 157-162, called at line 187: every entry is moved, or
\* shutil.move raises after some of them have been.  Line 188 and the return
\* to the loop of line 223 follow.
MoveFiles ==
    /\ pc = "collect"
    /\ \E moved \in SUBSET DOMAIN capture_directory :
         /\ output_directory' = MoveAll(moved, capture_directory, output_directory)
         /\ capture_directory' = Remove(capture_directory, moved)
         /\ tshark' = Collected(moved)
         /\ IF moved = DOMAIN capture_directory
            THEN /\ taskIdx' = taskIdx + 1
                 /\ lifecycle' = [lifecycle EXCEPT ![taskIdx] = "collected"]
                 /\ pc' = "task"
                 /\ UNCHANGED fatal
                 /\ Mark("collect")
            ELSE /\ UNCHANGED <<taskIdx, lifecycle>>
                 /\ Raise("OSError")
                 /\ NoMark
    /\ UNCHANGED <<fn_args, fn_result>>
    /\ UNCHANGED configured
    /\ UNCHANGED <<numTasks, task, hostIdx, clock, task_timestamp, ssh_client,
                   sessions, stdout, stderr, returncode>>

\* The tshark process of task k creates its capture file (-w <path>).
TsharkOpenFile(k) ==
    /\ tshark[k].state = "running"
    /\ tshark[k].file = "none"
    /\ SetDir(tshark[k].dir, Put(DirOf(tshark[k].dir), tshark[k].path, File(Packets(k))))
    /\ tshark' = [tshark EXCEPT ![k] = [@ EXCEPT !.file = "written"]]
    /\ UNCHANGED <<fn_args, fn_result>>
    /\ UNCHANGED configured
    /\ UNCHANGED <<numTasks, taskIdx, task, pc, hostIdx, clock, task_timestamp,
                   ssh_client, sessions, stdout, stderr, returncode, lifecycle,
                   now, ev, fatal>>

\* The tshark process of task k exits, on its own or after SIGTERM.
TsharkExit(k) ==
    /\ tshark[k].state \in {"running", "terminating"}
    /\ tshark' = [tshark EXCEPT ![k] = [@ EXCEPT !.state = "exited"]]
    /\ UNCHANGED <<fn_args, fn_result>>
    /\ UNCHANGED configured
    /\ UNCHANGED <<numTasks, taskIdx, task, pc, hostIdx, clock, task_timestamp,
                   ssh_client, sessions, stdout, stderr, returncode,
                   capture_directory, output_directory, lifecycle, now, ev,
                   fatal>>

\* ------------------------------------------------------------------ properties
\* The statements at which the script is inside process_creator_task.
TaskSteps == {"configure", "exec", "write", "close", "run", "communicate",
              "cmdwrite", "sleep", "terminate", "collect"}

\* The names of the files host_configure writes for host h of the current task.
HostDirName == PathOf(get_task_id(task, task_timestamp), "")
HostLog(h) == <<h, ".log">>
HostErr(h) == <<h, ".err">>

\* C1: in every task run the capture process is started before the local
\* command begins, the command ends after it began, the settle delay ends
\* after the command ended, and the stop request is sent only after the delay
\* has ended (start < command begin <= command end < delay end <= stop); a
\* stop request has been sent to the task's capture process only when all of
\* these have happened.
CaptureBracketsCommand ==
    /\ ev.cmdBegin # 0 => 0 < ev.start /\ ev.start < ev.cmdBegin
                          /\ tshark[ev.k].spawned > 0
    /\ ev.cmdEnd # 0 => ev.cmdBegin # 0 /\ ev.cmdBegin <= ev.cmdEnd
    /\ ev.delayEnd # 0 => ev.cmdEnd # 0 /\ ev.cmdEnd < ev.delayEnd
    /\ ev.stop # 0 => ev.delayEnd # 0 /\ ev.delayEnd <= ev.stop
    /\ pc \in {"communicate", "cmdwrite", "sleep"} =>
           ev.cmdBegin # 0 /\ tshark[taskIdx].terminate = 0
    /\ \A k \in TaskIds :
           (k = ev.k /\ tshark[k].terminate > 0) => ev.stop # 0

\* C1 witness: a task whose capture was started, whose command ran, whose
\* delay elapsed and whose capture process was then sent the stop request.
CaptureStoppedAfterDelay ==
    /\ ev.k = 2
    /\ ev.stop # 0
    /\ ev.start < ev.cmdBegin /\ ev.cmdEnd < ev.delayEnd
    /\ tshark[2].terminate = 1

\* C2: tasks run one after another in declared order: a task has begun only
\* when every task before it has completed its collect step, no task after
\* the running one has begun (no capture process, no lifecycle state), and at
\* most one task is running at any time.
TasksAreSequential ==
    /\ \A k \in TaskIds :
         lifecycle[k] # "pending" =>
             /\ \A j \in 1..(k - 1) : lifecycle[j] = "collected"
             /\ k <= taskIdx
    /\ \A k \in TaskIds : tshark[k].spawned > 0 => lifecycle[k] # "pending"
    /\ Cardinality({k \in TaskIds : lifecycle[k] = "running"}) <= 1
    /\ pc \in TaskSteps => lifecycle[taskIdx] = "running" /\ ev.k = taskIdx
    /\ \A k \in TaskIds : k > taskIdx => lifecycle[k] = "pending"

\* C2 witness: the second task is inside its host configuration while the
\* first one has been collected.
SecondTaskAfterFirstCollected ==
    /\ lifecycle[1] = "collected"
    /\ lifecycle[2] = "running"
    /\ pc = "exec"

\* C3 (as stated): once the run is over, every task that reached the capture
\* start has had exactly one capture process created, which was sent terminate
\* (and never kill) exactly once.
EveryCaptureTerminatedOnce ==
    pc \in {"done", "aborted"} =>
        \A k \in TaskIds :
            tshark[k].spawned > 0 =>
                tshark[k].spawned = 1 /\ tshark[k].terminate = 1
                /\ tshark[k].kill = 0

\* C4 (as stated): when the remote command's stderr is not empty, the .err
\* file of the host, once the write step has created it, holds exactly that
\* error stream.
HostErrHoldsStderr ==
    [][(pc = "write" /\ stderr # "" /\ HostConfigureDir = "output"
        /\ HostDirName \in DOMAIN output_directory'
        /\ HostErr(task.configuration[hostIdx].ip)
               \in DOMAIN output_directory'[HostDirName].entries)
       => output_directory'[HostDirName].entries[
              HostErr(task.configuration[hostIdx].ip)].data = stderr]_vars

\* C5 (as stated): every artifact is created in the capture workspace, so the
\* output directory changes only in the collect step.
OutputChangesOnlyByCollect ==
    [][output_directory' # output_directory => pc = "collect"]_vars

\* C5 (amended): the capture file is the only artifact created in the capture
\* workspace, and a capture file appears in (or is replaced in) the output
\* directory only by the collect step, which takes it from the workspace; the
\* command's .log/.err and the per-host directory are created directly in
\* the output directory, by the write steps of host_configure and run_command.
OnlyCaptureGoesThroughWorkspace ==
    [][/\ \A n \in DOMAIN output_directory' :
            (n \notin DOMAIN output_directory
             \/ output_directory'[n] # output_directory[n]) =>
                IF n[3] = CaptureExt
                THEN /\ pc = "collect"
                     /\ n \in DOMAIN capture_directory
                     /\ output_directory'[n] = capture_directory[n]
                ELSE pc \in {"write", "cmdwrite"}
       /\ \A n \in DOMAIN capture_directory' : n[3] = CaptureExt
       /\ \A n \in DOMAIN capture_directory' \ DOMAIN capture_directory :
            \E k \in TaskIds : tshark[k].path = n /\ tshark'[k].file = "written"
      ]_vars

\* C5 witness: a command's .log sits in the output directory while the capture
\* file of the same task is still in the workspace, next to the capture file
\* of an earlier task that the collect step has brought to the output
\* directory.
LogInOutputCaptureInWorkspace ==
    /\ \E n \in DOMAIN capture_directory :
           n[3] = CaptureExt /\ <<n[1], n[2], ".log">> \in DOMAIN output_directory
    /\ lifecycle[1] = "collected"
    /\ \E n \in DOMAIN output_directory : n = tshark[1].path

\* C6: a move_files call that returns has moved every entry of the workspace:
\* the workspace is empty, every entry it held is in the output directory
\* under the same name with the same content, and nothing else in the output
\* directory has changed.
MoveFilesMovesEverything ==
    [][(pc = "collect" /\ pc' = "task") =>
          /\ capture_directory' = EmptyDir
          /\ DOMAIN output_directory' =
                 DOMAIN output_directory \cup DOMAIN capture_directory
          /\ \A n \in DOMAIN capture_directory :
                 output_directory'[n] = capture_directory[n]
          /\ \A n \in DOMAIN output_directory \ DOMAIN capture_directory :
                 output_directory'[n] = output_directory[n]]_vars

\* C6 witness: the collect step of the second task has returned, the
\* workspace is empty and the output directory holds what was collected,
\* the second task's capture under the name the first task's capture had.
CollectedTwice ==
    /\ pc = "task"
    /\ ev.k = 2 /\ ev.collect # 0
    /\ capture_directory = EmptyDir
    /\ tshark[1].file = "moved" /\ tshark[2].file = "moved"
    /\ tshark[1].path = tshark[2].path
    /\ output_directory[tshark[2].path] = File(Packets(2))

\* C7: a fatal failure ends the run: the step that fails leaves every entry
\* the output directory already held as it was, and after it the script
\* executes nothing (no further step of the task, no later task, no retry) and
\* the output directory stays as it is.
FatalErrorAbortsRun ==
    [][/\ (fatal = "none" /\ fatal' # "none") =>
            /\ pc' = "aborted"
            /\ \A n \in DOMAIN output_directory :
                   n \in DOMAIN output_directory'
                   /\ output_directory'[n] = output_directory[n]
            /\ UNCHANGED <<taskIdx, lifecycle>>
       /\ fatal # "none" =>
            /\ pc = "aborted"
            /\ UNCHANGED <<numTasks, taskIdx, task, pc, hostIdx, clock,
                           task_timestamp, ssh_client, sessions, stdout,
                           stderr, returncode, output_directory, lifecycle,
                           now, ev, fatal>>
            /\ \A k \in TaskIds : tshark'[k].spawned = tshark[k].spawned
                                  /\ tshark'[k].terminate = tshark[k].terminate
      ]_vars

\* C7 witness: the second task has failed fatally after the first one was
\* collected and its capture file is in the output directory.
SecondTaskFailed ==
    /\ pc = "aborted"
    /\ fatal # "none"
    /\ taskIdx = 2
    /\ lifecycle[1] = "collected"
    /\ tshark[1].path \in DOMAIN output_directory

\* C8 (as stated): a command that exits with a non-zero code, remote or local,
\* has its output captured and the task goes on to the next step, unless the
\* file system refuses the write.
NonZeroExitGoesOn ==
    [][/\ (pc = "cmdwrite" /\ returncode # 0 /\ fatal' # "OSError") =>
            /\ pc' = "sleep"
            /\ stdout # "" =>
                 LET log == PathOf(get_task_id(task, task_timestamp), ".log")
                 IN  log \in DOMAIN output_directory'
                     /\ output_directory'[log].data = stdout
       /\ (pc = "write" /\ returncode # 0 /\ fatal' # "OSError") =>
            pc' = "close"
      ]_vars

\* C9 (as stated): after the write step of a host configuration the per-host
\* directory exists only if a stream is non-empty, the host's .log exists
\* iff stdout is non-empty and its .err exists iff stderr is non-empty
\* (unless the file system refuses an operation).
HostFilesMatchStreams ==
    [][(pc = "write" /\ fatal' # "OSError"
        /\ HostDirName \notin DOMAIN output_directory) =>
          LET h == task.configuration[hostIdx].ip
              made == HostDirName \in DOMAIN output_directory'
              files == IF made
                       THEN DOMAIN output_directory'[HostDirName].entries
                       ELSE {}
          IN  /\ made <=> (stdout # "" \/ stderr # "")
              /\ HostLog(h) \in files <=> stdout # ""
              /\ HostErr(h) \in files <=> stderr # ""]_vars

\* C10 (as stated): at most one SSH session is open at any time, and once the
\* output of the remote command has been read the session is closed whatever
\* happens next: no session is open outside a host configuration step, also
\* when the run was ended by a failure after the read.
SessionAlwaysClosed ==
    /\ sessions <= 1
    /\ (pc \notin {"exec", "write", "close"} /\ fatal # "SSHException") =>
           sessions = 0


\* C11 (as stated): for a task with no host configuration whose command
\* prints to stdout only, the command step leaves {identity}.log holding that
\* output, no {identity}.err and no {identity} directory in the output
\* directory and the task goes on; and once the task's collect step has
\* returned, the capture file it wrote is in the output directory as
\* {identity}.pcapng.
StdoutOnlyTaskArtifacts ==
    [][LET id == get_task_id(task, task_timestamp)
       IN  /\ (pc = "cmdwrite" /\ Len(task.configuration) = 0
               /\ stdout # "" /\ stderr = "" /\ fatal' # "OSError") =>
                 /\ pc' = "sleep"
                 /\ PathOf(id, ".log") \in DOMAIN output_directory'
                 /\ output_directory'[PathOf(id, ".log")].data = stdout
                 /\ PathOf(id, ".err") \notin DOMAIN output_directory'
                 /\ PathOf(id, "") \notin DOMAIN output_directory'
           /\ (pc = "collect" /\ pc' = "task" /\ Len(task.configuration) = 0
               /\ tshark[taskIdx].file = "written") =>
                 PathOf(id, ".pcapng") \in DOMAIN output_directory'
      ]_vars

\* The addresses of the current task's host entries, in declared order.
DeclaredHosts ==
    [i \in 1..Len(task.configuration) |-> task.configuration[i].ip]

\* C14: the host entries of a task are configured in declared order, one
\* connection each: the connections opened so far are to a prefix of the
\* declared list, the connection of an entry is open only while that entry is
\* being configured and is closed before the next one is opened, and the
\* capture process is started only when every entry has been configured and
\* no connection is open; a task without entries opens no connection.
HostsConfiguredInOrder ==
    /\ Len(configured) <= Len(DeclaredHosts)
    /\ configured = SubSeq(DeclaredHosts, 1, Len(configured))
    /\ sessions <= 1
    /\ pc = "configure" => sessions = 0 /\ Len(configured) = hostIdx - 1
    /\ pc \in {"exec", "write", "close"} =>
           sessions = 1 /\ Len(configured) = hostIdx
    /\ ev.start # 0 => configured = DeclaredHosts /\ sessions = 0
    /\ (pc \in TaskSteps /\ DeclaredHosts = <<>>) =>
           pc \notin {"exec", "write", "close"} /\ configured = <<>>

\* C14 witness: the capture of a task with two entries for different hosts has
\* been started, after a connection to the first and then one to the second.
TwoHostsThenCapture ==
    /\ ev.start # 0
    /\ Len(DeclaredHosts) = 2
    /\ DeclaredHosts[1] # DeclaredHosts[2]
    /\ configured = DeclaredHosts
    /\ tshark[ev.k].spawned = 1

\* C15: every artifact a task run creates is named with one identity, that of
\* the task being run and the time stamp taken when it began: neither changes
\* while the task runs, and each name created in the output directory by a
\* write step, each capture file created in the workspace and the path given
\* to the capture process carry it.
ArtifactsCarryTaskIdentity ==
    [][LET id == get_task_id(task, task_timestamp)
       IN  /\ pc \in TaskSteps => UNCHANGED <<task, task_timestamp>>
           /\ \A n \in DOMAIN output_directory' \ DOMAIN output_directory :
                  pc # "collect" =>
                      pc \in TaskSteps /\ <<n[1], n[2]>> = id
           /\ \A n \in DOMAIN capture_directory' \ DOMAIN capture_directory :
                  <<n[1], n[2]>> = id /\ lifecycle[ev.k] = "running"
           /\ \A k \in TaskIds :
                  tshark'[k].path # tshark[k].path =>
                      k = taskIdx /\ pc \in TaskSteps
                      /\ tshark'[k].path = PathOf(id, CaptureExt)
      ]_vars

\* C15 witness: the second task, named differently from the first, has its
\* command's .log in the output directory and its capture file in the
\* workspace, both under the second task's identity.
SecondTaskArtifactsShareIdentity ==
    /\ ev.k = 2
    /\ tshark[1].path # <<>>
    /\ tshark[1].path[2] # get_task_id(task, task_timestamp)[2]
    /\ PathOf(get_task_id(task, task_timestamp), ".log")
           \in DOMAIN output_directory
    /\ PathOf(get_task_id(task, task_timestamp), CaptureExt)
           \in DOMAIN capture_directory

\* C16 (as stated): when the run has ended, normally or by a fatal error in
\* any step, no capture process that was started is without a termination
\* request.
NoCaptureLeftWithoutStop ==
    pc \in {"done", "aborted"} =>
        \A k \in TaskIds :
            tshark[k].state # "none" => tshark[k].terminate >= 1

\* C17 (as stated): the collect step moves a task's capture file out of the
\* workspace only when that task's capture process has exited.
CollectAfterCaptureExited ==
    [][(pc = "collect"
        /\ tshark[taskIdx].file = "written"
        /\ tshark'[taskIdx].file = "moved")
       => tshark[taskIdx].state = "exited"]_vars

\* C18 (as stated): at most one capture process is alive (running, or
\* signalled and not yet gone) at any time.
AtMostOneCaptureAlive ==
    Cardinality({k \in TaskIds :
                    tshark[k].state \in {"running", "terminating"}}) <= 1

Next ==
    \/ Tick
    \/ ProcessTask
    \/ Finish
    \/ HostConnect
    \/ HostExec
    \/ HostWrite
    \/ HostClose
    \/ StartTshark
    \/ RunPopen
    \/ RunCommunicate
    \/ RunWrite
    \/ Sleep
    \/ Terminate
    \/ MoveFiles
    \/ \E k \in TaskIds : TsharkOpenFile(k)
    \/ \E k \in TaskIds : TsharkExit(k)

Spec == Init /\ [][Next]_vars

\* ------------------------------------------------- functions called on their own
\* The script before its first task, with nothing left by an earlier run.
Idle ==
    /\ numTasks = 1
    /\ taskIdx = 1
    /\ task = NoTask
    /\ pc = "task"
    /\ hostIdx = 1
    /\ clock = 0
    /\ task_timestamp = 0
    /\ ssh_client = "none"
    /\ sessions = 0
    /\ stdout = ""
    /\ stderr = ""
    /\ returncode = 0
    /\ capture_directory = EmptyDir
    /\ output_directory = EmptyDir
    /\ tshark = [k \in TaskIds |-> NoProcess]
    /\ lifecycle = [k \in TaskIds |-> "pending"]
    /\ now = 0
    /\ ev = NoEvents
    /\ fatal = "none"
    /\ configured = <<>>

program == <<numTasks, taskIdx, task, pc, hostIdx, clock, task_timestamp,
             ssh_client, sessions, stdout, stderr, returncode,
             capture_directory, output_directory, tshark, lifecycle, now, ev,
             fatal, configured>>

\* start_tshark for a task with or without the "filter" key.
StartTsharkArgs ==
    {[fn |-> "start_tshark", has_filter |-> TRUE, filter |-> f] :
         f \in SeqsUpTo(FilterChars, MaxFilterLen)}
    \cup {[fn |-> "start_tshark", has_filter |-> FALSE, filter |-> <<>>]}

InitStartTshark ==
    /\ Idle
    /\ fn_args \in StartTsharkArgs
    /\ fn_result = NoCall

CallStartTshark ==
    /\ fn_args.fn = "start_tshark"
    /\ fn_result = NoCall
    /\ fn_result' = start_tshark_argv(fn_args.has_filter, fn_args.filter)
    /\ UNCHANGED <<program, fn_args>>

SpecStartTshark == InitStartTshark /\ [][CallStartTshark]_vars

\* get_task_id for names around the length limit: n copies of one character
\* followed by at most one other.
NameChars == {"A", "b", Space, "/", "I-dot"}
NameLengths == {0, 1, NameLimit - 1, NameLimit, NameLimit + 1}
LongNames ==
    {[i \in 1..n |-> c] \o t :
         c \in NameChars, n \in NameLengths, t \in SeqsUpTo(NameChars, 1)}

GetTaskIdArgs ==
    {[fn |-> "get_task_id", name |-> nm, timestamp |-> ts] :
         nm \in LongNames, ts \in {0, 1}}

InitGetTaskId ==
    /\ Idle
    /\ fn_args \in GetTaskIdArgs
    /\ fn_result = NoCall

CallGetTaskId ==
    /\ fn_args.fn = "get_task_id"
    /\ fn_result = NoCall
    /\ fn_result' = [fn |-> "get_task_id",
                     id |-> get_task_id([name |-> fn_args.name],
                                        fn_args.timestamp)]
    /\ UNCHANGED <<program, fn_args>>

SpecGetTaskId == InitGetTaskId /\ [][CallGetTaskId]_vars

\* C13 (as stated): the identity derived from a name and a timestamp is the
\* timestamp followed by the first 50 characters of the name, lower-cased,
\* with every unsafe character replaced by an underscore; so its name part is
\* at most 50 characters long, holds no upper-case and no unsafe character,
\* and is the same whenever name and timestamp are the same.
IdentityWellFormed ==
    fn_result.fn = "get_task_id" =>
        LET id == fn_result.id
            first == SubSeq(fn_args.name, 1, 50)
        IN  /\ id[1] = fn_args.timestamp
            /\ id[2] = Sanitize(str_lower(
                           IF Len(fn_args.name) > 50 THEN first ELSE fn_args.name))
            /\ Len(id[2]) <= 50
            /\ \A i \in 1..Len(id[2]) :
                   id[2][i] \notin UnsafeChars \cup {"A", "B", "I-dot"}
            /\ id = get_task_id([name |-> fn_args.name], fn_args.timestamp)

\* C12 (as stated): the argument list start_tshark builds is the base
\* invocation followed, when the task has a filter, by -f and the filter
\* expression, unchanged, as one argument; without a filter it is the base
\* invocation alone, with no -f.
FilterPassedUnchanged ==
    fn_result.fn = "start_tshark" =>
        /\ fn_result.raised = "none"
        /\ fn_result.argv =
               <<<<"tshark">>, <<"-i">>, <<"IFACE">>, <<"-q">>, <<"-w">>,
                 <<"FILE">>, <<"-F">>, <<"pcapng">>>>
               \o (IF fn_args.has_filter
                   THEN <<<<"-f">>, fn_args.filter>>
                   ELSE <<>>)

====
